---- MODULE Spec2Model ----
(***************************************************************************)
(* Verification model of the MLB backtest analysis scripts                 *)
(*   src/analyze_backtest.py and src/detailed_edge_analysis.py.            *)
(*                                                                         *)
(* Conventions.                                                            *)
(*  - A Python value that may be missing (a dict key that may be absent, a *)
(*    local that may be unbound) is a sequence of length 0 or 1:           *)
(*    None is <<>>, Some(x) is <<x>>.                                      *)
(*  - A string that the code splits (gameId) is a sequence of tokens; the  *)
(*    tokens "_" and "@" are the delimiter characters, every other token   *)
(*    is a run of characters holding neither.                              *)
(*  - confidence is an integer number of hundredths (0.70 is 70).          *)
(*  - A quotient a / b is the pair <<a, b>>, compared by cross             *)
(*    multiplication; <<0, 0>> marks a ZeroDivisionError.                  *)
(*  - Each loop `for game in results` reads one more element of results    *)
(*    per step; the element is chosen when it is read.                     *)
(***************************************************************************)
EXTENDS Integers, Sequences, FiniteSets, Bags, TLC

VARIABLES
    pc,            \* the function being run and the position in it
    game,          \* the loop variable `game` (None before the first iteration)
    n,             \* the number of elements of results read by the current loop
    exception,     \* "none", or the exception that ended the run
    report,        \* what the function printed: group -> printed statistics
    results,       \* the elements of results read so far, kept by the functions
                   \* that read results more than once
    away_team,     \* analyze_optimal_betting_scenarios: local, may be unbound
    home_team,     \* analyze_optimal_betting_scenarios: local, may be unbound
    day_of_week,   \* analyze_optimal_betting_scenarios: local, may be unbound
    scenarios,     \* scenario name -> list of games
    team_performance,        \* analyze_team_venue_patterns
    venue_performance,       \* analyze_team_venue_patterns
    weather_performance,     \* analyze_weather_patterns
    temp_ranges,             \* analyze_weather_patterns
    day_performance,         \* analyze_temporal_patterns
    month_performance,       \* analyze_temporal_patterns
    model_performance_by_scenario,   \* analyze_model_weighting_opportunities
    over_under_performance           \* identify_prediction_patterns

scenarioLocals == <<away_team, home_team, day_of_week, scenarios>>

teamLocals == <<team_performance, venue_performance>>

weatherLocals == <<results, weather_performance, temp_ranges>>

temporalLocals == <<day_performance, month_performance>>

vars == <<pc, game, n, exception, report, scenarioLocals, teamLocals, weatherLocals,
          temporalLocals, model_performance_by_scenario, over_under_performance>>

----------------------------------------------------------------------------
(* Bounds of the model *)

MaxGames == 2

MaxKellyGames == 21

MaxRankGames == 6

MaxSeasonGames == 36

----------------------------------------------------------------------------
(* Optional values *)

None == <<>>

Some(x) == <<x>>

IsSome(o) == o # <<>>

\* dict.get(key, default)
Get(o, default) == IF o = <<>> THEN default ELSE o[1]

Range(s) == {s[i] : i \in DOMAIN s}

----------------------------------------------------------------------------
(* Python dicts: the sequence of (key, value) pairs in insertion order *)

\* list(d.keys())
Keys(d) == [i \in DOMAIN d |-> d[i][1]]

\* list(d.values())
Values(d) == [i \in DOMAIN d |-> d[i][2]]

\* key in d
Has(d, k) == \E i \in DOMAIN d : d[i][1] = k

\* d[key], the key being in d
Lookup(d, k) == d[CHOOSE i \in DOMAIN d : d[i][1] = k][2]

\* defaultdict.__getitem__: a missing key is inserted, last, with the default
Touch(d, k, default) == IF Has(d, k) THEN d ELSE Append(d, <<k, default>>)

\* d[key] = value, the key being in d
Store(d, k, v) == [i \in DOMAIN d |-> IF d[i][1] = k THEN <<k, v>> ELSE d[i]]

\* defaultdict(lambda: {'correct': 0, 'total': 0})
NoStats == [correct |-> 0, total |-> 0]

\* the two increments exchanged: correct += 1; if correct: total += 1
CountedSwapped(stats, correct) ==
    [correct |-> stats.correct + 1, total |-> stats.total + (IF correct THEN 1 ELSE 0)]

\* stats['total'] += 1; if correct: stats['correct'] += 1
Counted(stats, correct) ==
    [correct |-> stats.correct + (IF correct THEN 1 ELSE 0), total |-> stats.total + 1]

\* perf[key]['total'] += 1; if correct: perf[key]['correct'] += 1
Tally(perf, k, correct) ==
    Store(Touch(perf, k, NoStats), k, Counted(Lookup(Touch(perf, k, NoStats), k), correct))

----------------------------------------------------------------------------
(* Quotients *)

ZeroDivisionError == <<0, 0>>

\* a / b on numbers
Div(a, b) == IF b = 0 THEN ZeroDivisionError ELSE <<a, b>>

RatLt(x, y) == x[1] * y[2] < y[1] * x[2]

RatLe(x, y) == x[1] * y[2] <= y[1] * x[2]

RatEq(x, y) == x[1] * y[2] = y[1] * x[2]

RatSub(x, y) == <<x[1] * y[2] - y[1] * x[2], x[2] * y[2]>>

RatMul(x, y) == <<x[1] * y[1], x[2] * y[2]>>

\* x / y on quotients, y > 0
RatDiv(x, y) == <<x[1] * y[2], x[2] * y[1]>>

----------------------------------------------------------------------------
(* Strings as token sequences: `c in s` and s.split(c) *)

Contains(s, c) == \E i \in DOMAIN s : s[i] = c

RECURSIVE Split(_, _)
\* s.split(sep): the pieces of s between the occurrences of sep
Split(s, sep) ==
    IF ~Contains(s, sep) THEN <<s>>
    ELSE LET i == CHOOSE k \in DOMAIN s : s[k] = sep /\ \A j \in 1..(k - 1) : s[j] # sep
         IN <<SubSeq(s, 1, i - 1)>> \o Split(SubSeq(s, i + 1, Len(s)), sep)

----------------------------------------------------------------------------
(* datetime.strptime(game['gameDate'], '%Y-%m-%d').strftime('%A' / '%B') *)

IsLeap(y) == (y % 4 = 0) /\ ((y % 100 # 0) \/ (y % 400 = 0))

DaysBeforeMonth(y, m) ==
    LET cum == <<0, 31, 59, 90, 120, 151, 181, 212, 243, 273, 304, 334>>
    IN cum[m] + (IF m > 2 /\ IsLeap(y) THEN 1 ELSE 0)

\* date.toordinal(): days since 0001-01-01, that day being 1
ToOrdinal(d) ==
    LET y == d[1] - 1
    IN y * 365 + (y \div 4) - (y \div 100) + (y \div 400) + DaysBeforeMonth(d[1], d[2]) + d[3]

DayNames == <<"Monday", "Tuesday", "Wednesday", "Thursday", "Friday", "Saturday", "Sunday">>

MonthNames == <<"January", "February", "March", "April", "May", "June", "July",
                "August", "September", "October", "November", "December">>

\* strftime('%A')
DayOfWeek(d) == DayNames[((ToOrdinal(d) + 6) % 7) + 1]

\* strftime('%B')
MonthName(d) == MonthNames[d[2]]

----------------------------------------------------------------------------
(* GameRecord: one element of data['results'] *)

MkGame(id, date, prediction, correct, confidence, edge, weather, breakdown) ==
    [gameId |-> id, gameDate |-> date, prediction |-> prediction, correct |-> correct,
     confidence |-> confidence, edge |-> edge, weatherData |-> weather,
     modelBreakdown |-> breakdown]

\* weatherData: every key may be missing
MkWeather(condition, temp_f, wind_mph, humidity) ==
    [condition |-> condition, temp_f |-> temp_f, wind_mph |-> wind_mph, humidity |-> humidity]

\* one member of modelBreakdown
MkVote(prediction, correct) == [prediction |-> prediction, correct |-> correct]

(* gameId values: the documented form and the ways of departing from it *)

IdTopAway == <<"2025-05-30", "_", "ChicagoCubs", "@", "NewYorkMets">>

IdTopHome == <<"2025-05-30", "_", "TexasRangers", "@", "MiamiMarlins">>

IdOther == <<"2025-05-30", "_", "NewYorkMets", "@", "TexasRangers">>

IdNoDelimiter == <<"2025-05-30">>

IdNoAt == <<"2025-05-30", "_", "ChicagoCubs">>

IdNoUnderscore == <<"ChicagoCubs", "@", "NewYorkMets">>

IdAtBeforeUnderscore == <<"ChicagoCubs", "@", "2025-05-30", "_", "NewYorkMets">>

IdTwoAts == <<"2025-05-30", "_", "ChicagoCubs", "@", "NewYorkMets", "@", "MiamiMarlins">>

WellFormedIds == {IdTopAway, IdTopHome, IdOther}

MalformedIds == {IdNoDelimiter, IdNoAt, IdNoUnderscore, IdAtBeforeUnderscore, IdTwoAts}

\* 2025-05-30 is a Friday, 2025-06-01 a Sunday, 2025-06-02 a Monday
Friday30 == <<2025, 5, 30>>

Saturday31 == <<2025, 5, 31>>

Sunday1 == <<2025, 6, 1>>

Monday2 == <<2025, 6, 2>>

\* modelBreakdown values: a dict is the sequence of its (key, value) pairs in
\* insertion order, which is the order .items() and .values() follow
VotesAgree == <<<<"Model_B_Offense", MkVote("Over", TRUE)>>, <<"Model_A_Pitching", MkVote("Over", TRUE)>>>>

VotesSplit == <<<<"Model_A_Pitching", MkVote("Over", TRUE)>>, <<"Model_B_Offense", MkVote("Under", FALSE)>>>>

VotesEmpty == <<>>

----------------------------------------------------------------------------
(* gameId parsing, as both analyze_team_venue_patterns and                 *)
(* analyze_optimal_betting_scenarios do it                                 *)

\* if '_' in game_id and '@' in game_id: teams_part = game_id.split('_')[1];
\* if '@' in teams_part: -- whether the unpacking statement is reached
ReachesUnpack(game_id) ==
    /\ Contains(game_id, "_")
    /\ Contains(game_id, "@")
    /\ Contains(Split(game_id, "_")[2], "@")

\* teams_part.split('@')
TeamsSplit(game_id) == Split(Split(game_id, "_")[2], "@")

\* away_team, home_team = teams_part.split('@') raises ValueError unless the
\* list has exactly two elements
UnpackRaises(game_id) == ReachesUnpack(game_id) /\ Len(TeamsSplit(game_id)) # 2

\* the record's own (away, home) pair, None when the gameId does not give one
ParsedTeams(game_id) ==
    IF ReachesUnpack(game_id) /\ Len(TeamsSplit(game_id)) = 2
    THEN Some(TeamsSplit(game_id))
    ELSE None

----------------------------------------------------------------------------
(* Statistics of a list of games *)

\* sum(1 for game in games if game['correct'])
CorrectCount(games) == Cardinality({i \in DOMAIN games : games[i].correct})

RECURSIVE SumConfidence(_)
\* sum(game['confidence'] for game in games)
SumConfidence(games) ==
    IF games = <<>> THEN 0 ELSE Head(games).confidence + SumConfidence(Tail(games))

RECURSIVE SumEdge(_)
\* sum(game.get('edge', 0) for game in games)
SumEdge(games) ==
    IF games = <<>> THEN 0 ELSE Get(Head(games).edge, 0) + SumEdge(Tail(games))

NotShown == [shown |-> FALSE, games |-> 0, correct |-> 0, accuracy |-> None]

Shown(total, correct, accuracy) ==
    [shown |-> TRUE, games |-> total, correct |-> correct, accuracy |-> Some(accuracy)]

\* whether computing a report divided by zero
Raises(rep) == \E k \in DOMAIN rep : rep[k].accuracy = Some(ZeroDivisionError)

----------------------------------------------------------------------------
(* analyze_optimal_betting_scenarios (detailed_edge_analysis.py)           *)

ScenarioNames == <<"high_confidence_only", "model_consensus", "friday_sunday",
                   "few_clouds_weather", "top_teams", "combined_optimal">>

NoScenarios == [s \in Range(ScenarioNames) |-> <<>>]

top_teams == {<<"ChicagoCubs">>, <<"PhiladelphiaPhillies">>, <<"BaltimoreOrioles">>,
              <<"ColoradoRockies">>, <<"MiamiMarlins">>, <<"CincinnatiReds">>,
              <<"Athletics">>, <<"SanFranciscoGiants">>}

HighConfidenceThreshold == 75

RelaxedConfidenceThreshold == 70

CriteriaNeeded == 3

\* game['confidence'] > 0.75
IsHighConfidence(g) == g.confidence > HighConfidenceThreshold

\* the test len(set(predictions)) <= 1: a breakdown without members agrees
IsModelConsensusOrEmpty(g) ==
    /\ IsSome(g.modelBreakdown)
    /\ Cardinality({Values(g.modelBreakdown[1])[i].prediction :
                        i \in DOMAIN g.modelBreakdown[1]}) <= 1

\* 'modelBreakdown' in game and len(set(predictions)) == 1
IsModelConsensus(g) ==
    /\ IsSome(g.modelBreakdown)
    /\ Cardinality({Values(g.modelBreakdown[1])[i].prediction :
                        i \in DOMAIN g.modelBreakdown[1]}) = 1

\* day_of_week in ['Friday', 'Sunday']
IsFridaySunday(day) == day \in {"Friday", "Sunday"}

\* 'weatherData' in game and game['weatherData'].get('condition') == 'few clouds'
IsFewClouds(g) ==
    /\ IsSome(g.weatherData)
    /\ g.weatherData[1].condition = Some("few clouds")

\* away_team in top_teams or home_team in top_teams, on bound locals
InTopTeams(away, home) == away[1] \in top_teams \/ home[1] \in top_teams

\* the locals away_team, home_team after the parsing block of one iteration
TeamsAfterParse(g, away, home) ==
    IF IsSome(ParsedTeams(g.gameId))
    THEN <<Some(ParsedTeams(g.gameId)[1][1]), Some(ParsedTeams(g.gameId)[1][2])>>
    ELSE <<away, home>>

\* meets_criteria, with the locals as they stand when line 76 is reached
MeetsCriteria(g, day, away, home) ==
      (IF g.confidence > RelaxedConfidenceThreshold THEN 1 ELSE 0)
    + (IF IsModelConsensus(g) THEN 1 ELSE 0)
    + (IF IsFridaySunday(day) THEN 1 ELSE 0)
    + (IF IsFewClouds(g) THEN 1 ELSE 0)
    + (IF InTopTeams(away, home) THEN 1 ELSE 0)

Append1(s, name, g, cond) == IF cond THEN [s EXCEPT ![name] = Append(@, g)] ELSE s

\* scenarios after the four standalone blocks (lines 35-53)
AfterStandalone(s, g) ==
    LET s1 == Append1(s, "high_confidence_only", g, IsHighConfidence(g))
        s2 == Append1(s1, "model_consensus", g, IsModelConsensus(g))
        s3 == Append1(s2, "friday_sunday", g, IsFridaySunday(DayOfWeek(g.gameDate)))
    IN Append1(s3, "few_clouds_weather", g, IsFewClouds(g))

\* scenarios after the top-team block (lines 56-62), when it does not raise
AfterTopTeams(s, g) ==
    Append1(s, "top_teams", g,
            /\ IsSome(ParsedTeams(g.gameId))
            /\ InTopTeams(Some(ParsedTeams(g.gameId)[1][1]), Some(ParsedTeams(g.gameId)[1][2])))

NoTempRanges ==
    [b \in {"Cold (<70F)", "Mild (70-85F)", "Hot (85-95F)", "Very Hot (>95F)"} |-> <<>>]

NoModelPerformance ==
    [s \in {"high_temp", "low_temp", "high_wind", "low_wind", "weekend", "weekday"} |-> <<>>]

NoOverUnder ==
    [p \in {"Over", "Under"} |-> [correct |-> 0, total |-> 0, by_temp |-> <<>>]]

DoneStates ==
    {"kelly_done", "team_done", "weighting_done", "weather_done", "temporal_done",
     "prediction_done", "high_confidence_done", "edge_done"}

\* the locals of every function as they are when no function is running
LocalsFresh ==
    /\ game = None
    /\ n = 0
    /\ results = <<>>
    /\ away_team = None
    /\ home_team = None
    /\ day_of_week = None
    /\ scenarios = NoScenarios
    /\ team_performance = <<>>
    /\ venue_performance = <<>>
    /\ weather_performance = <<>>
    /\ temp_ranges = NoTempRanges
    /\ day_performance = <<>>
    /\ month_performance = <<>>
    /\ model_performance_by_scenario = NoModelPerformance
    /\ over_under_performance = NoOverUnder

locals == <<game, n, scenarioLocals, teamLocals, weatherLocals, temporalLocals,
            model_performance_by_scenario, over_under_performance>>

\* main() calls the function named f
Call(f) ==
    /\ pc = "main"
    /\ pc' = f
    /\ UNCHANGED <<exception, report, locals>>

\* how a computation that printed rep ends: at `done`, or by the exception
Finish(rep, done) ==
    /\ report' = rep
    /\ exception' = IF Raises(rep) THEN "ZeroDivisionError" ELSE exception
    /\ pc' = IF Raises(rep) THEN "crashed" ELSE done

\* an exception ends the run
Crash(e) ==
    /\ exception' = e
    /\ pc' = "crashed"

\* one iteration of `for game in results` (lines 34-80)
ScenariosStep(g) ==
    /\ pc = "scenarios_loop"
    /\ n < MaxGames
    /\ n' = n + 1
    /\ game' = Some(g)
    /\ day_of_week' = Some(DayOfWeek(g.gameDate))
    /\ UNCHANGED <<report, teamLocals, weatherLocals, temporalLocals,
                   model_performance_by_scenario, over_under_performance>>
    /\ LET teams == TeamsAfterParse(g, away_team, home_team)
           s4 == AfterStandalone(scenarios, g)
           s5 == AfterTopTeams(s4, g)
       IN IF UnpackRaises(g.gameId)
          THEN \* line 60 raises ValueError
               /\ Crash("ValueError")
               /\ scenarios' = s4
               /\ UNCHANGED <<away_team, home_team>>
          ELSE IF teams[1] = None
          THEN \* line 76 reads the unbound local away_team
               /\ Crash("UnboundLocalError")
               /\ scenarios' = s5
               /\ UNCHANGED <<away_team, home_team>>
          ELSE /\ away_team' = teams[1]
               /\ home_team' = teams[2]
               /\ scenarios' = Append1(s5, "combined_optimal", g,
                                       MeetsCriteria(g, DayOfWeek(g.gameDate), teams[1], teams[2])
                                           >= CriteriaNeeded)
               /\ UNCHANGED <<pc, exception>>

----------------------------------------------------------------------------
(* analyze_optimal_betting_scenarios: the report *)

\* the printed block without its `if games` guard
ScenarioStatsUnguarded(games) ==
    Shown(Len(games), CorrectCount(games), Div(CorrectCount(games), Len(games)))

\* lines 83-98: one scenario's printed block, printed only `if games`
ScenarioStats(games) ==
    IF games # <<>>
    THEN Shown(Len(games), CorrectCount(games), Div(CorrectCount(games), Len(games)))
    ELSE NotShown

\* the loop of lines 83-98, then `return scenarios`
ScenariosReport ==
    /\ pc = "scenarios_loop"
    /\ Finish([s \in Range(ScenarioNames) |-> ScenarioStats(scenarios[s])], "scenarios_done")
    /\ UNCHANGED locals

----------------------------------------------------------------------------
(* calculate_kelly_criterion (detailed_edge_analysis.py)                   *)

\* b = 0.9
KellyB == <<9, 10>>

KellySkipped ==
    [shown |-> FALSE, games |-> 0, correct |-> 0, accuracy |-> None,
     recommended |-> FALSE, kelly_fraction |-> None, kelly_percentage |-> None]

\* if accuracy > 0.5 and avg_edge > 0
KellyGate(accuracy, avg_edge) == RatLt(<<1, 2>>, accuracy) /\ RatLt(<<0, 1>>, avg_edge)

\* the numerator b * p - q alone, the division by b left out
KellyFractionUndivided(p) == RatSub(RatMul(KellyB, p), RatSub(<<1, 1>>, p))

\* kelly_fraction = (b * p - q) / b, with q = 1 - p
KellyFraction(p) == RatDiv(RatSub(RatMul(KellyB, p), RatSub(<<1, 1>>, p)), KellyB)

\* one iteration of the loop of lines 199-224
KellyStats(games) ==
    IF games = <<>>
    THEN KellySkipped
    ELSE LET accuracy == Div(CorrectCount(games), Len(games))
             avg_edge == Div(SumEdge(games), Len(games))
         IN IF KellyGate(accuracy, avg_edge)
            THEN [shown |-> TRUE, games |-> Len(games), correct |-> CorrectCount(games),
                  accuracy |-> Some(accuracy), recommended |-> TRUE,
                  kelly_fraction |-> Some(KellyFraction(accuracy)),
                  kelly_percentage |-> Some(RatMul(KellyFraction(accuracy), <<100, 1>>))]
            ELSE [shown |-> TRUE, games |-> Len(games), correct |-> CorrectCount(games),
                  accuracy |-> Some(accuracy), recommended |-> FALSE,
                  kelly_fraction |-> None, kelly_percentage |-> None]

\* calculate_kelly_criterion(scenarios), called by main() with the scenarios
\* analyze_optimal_betting_scenarios returned
Kelly ==
    /\ pc \in {"scenarios_done", "kelly_arg"}
    /\ Finish([s \in DOMAIN scenarios |-> KellyStats(scenarios[s])], "kelly_done")
    /\ UNCHANGED locals

\* the function returns to main(): its locals are gone
Return ==
    /\ pc \in DoneStates
    /\ pc' = "main"
    /\ report' = <<>>
    /\ game' = None
    /\ n' = 0
    /\ results' = <<>>
    /\ away_team' = None
    /\ home_team' = None
    /\ day_of_week' = None
    /\ scenarios' = NoScenarios
    /\ team_performance' = <<>>
    /\ venue_performance' = <<>>
    /\ weather_performance' = <<>>
    /\ temp_ranges' = NoTempRanges
    /\ day_performance' = <<>>
    /\ month_performance' = <<>>
    /\ model_performance_by_scenario' = NoModelPerformance
    /\ over_under_performance' = NoOverUnder
    /\ UNCHANGED exception

----------------------------------------------------------------------------
(* analyze_team_venue_patterns (analyze_backtest.py)                       *)

\* stats['total'] > 5
MinSample == 5

TopN == 10

\* the loop over [home_team] alone: the away team is not tallied
TallyHomeTeamOnly(perf, teams, correct) == Tally(perf, teams[2], correct)

\* for team in [away_team, home_team]: the two tallies of lines 198-201
TallyTeams(perf, teams, correct) == Tally(Tally(perf, teams[1], correct), teams[2], correct)

\* one iteration of `for game in results` (lines 189-206)
TeamIteration(g) ==
    /\ pc = "team_loop"
    /\ n' = n + 1
    /\ game' = Some(g)
    /\ UNCHANGED <<report, scenarioLocals, weatherLocals, temporalLocals,
                   model_performance_by_scenario, over_under_performance>>
    /\ IF UnpackRaises(g.gameId)
       THEN \* line 195 raises ValueError
            /\ Crash("ValueError")
            /\ UNCHANGED teamLocals
       ELSE /\ UNCHANGED <<pc, exception>>
            /\ IF ReachesUnpack(g.gameId)
               THEN /\ team_performance' = TallyTeams(team_performance, TeamsSplit(g.gameId), g.correct)
                    /\ venue_performance' = Tally(venue_performance, TeamsSplit(g.gameId)[2], g.correct)
               ELSE UNCHANGED teamLocals

\* the iteration on one more element of a results of at most MaxRankGames
TeamStep(g) == n < MaxRankGames /\ TeamIteration(g)

\* the list comprehension of lines 209-210: (team, accuracy, total) of the
\* teams with total > 5, in the order of team_performance.items()
RECURSIVE TeamStats(_)
TeamStats(perf) ==
    IF perf = <<>> THEN <<>>
    ELSE LET team == Head(perf)[1]
             stats == Head(perf)[2]
             accuracy == IF stats.total > MinSample THEN Div(stats.correct, stats.total) ELSE <<0, 1>>
         IN (IF stats.total > MinSample
             THEN <<[key |-> team, accuracy |-> accuracy, total |-> stats.total]>>
             ELSE <<>>) \o TeamStats(Tail(perf))

\* where a sort that is not stable may put x: before the entries of equal accuracy
InsertBeforeEqual(sorted, x) ==
    LET before == {i \in DOMAIN sorted : \A j \in 1..i : RatLt(x.accuracy, sorted[j].accuracy)}
        k == Cardinality(before)
    IN SubSeq(sorted, 1, k) \o <<x>> \o SubSeq(sorted, k + 1, Len(sorted))

\* where list.sort puts x among the already sorted entries: after every entry
\* whose accuracy is not smaller (the sort is stable, also with reverse=True)
InsertByAccuracy(sorted, x) ==
    LET before == {i \in DOMAIN sorted : \A j \in 1..i : ~RatLt(sorted[j].accuracy, x.accuracy)}
        k == Cardinality(before)
    IN SubSeq(sorted, 1, k) \o <<x>> \o SubSeq(sorted, k + 1, Len(sorted))

RECURSIVE SortByAccuracy(_)
\* stats.sort(key=lambda x: x[1], reverse=True)
SortByAccuracy(stats) ==
    IF stats = <<>> THEN <<>>
    ELSE InsertByAccuracy(SortByAccuracy(SubSeq(stats, 1, Len(stats) - 1)), stats[Len(stats)])

\* the slice one entry short: team_stats[:9]
FirstNExclusive(s, k) == SubSeq(s, 1, IF Len(s) < k - 1 THEN Len(s) ELSE k - 1)

\* team_stats[:10]
FirstN(s, k) == SubSeq(s, 1, IF Len(s) < k THEN Len(s) ELSE k)

\* team_stats[-10:]
LastN(s, k) == SubSeq(s, IF Len(s) < k THEN 1 ELSE Len(s) - k + 1, Len(s))

\* lines 209-220: the ranked list and the two printed extracts
TeamReport ==
    /\ pc = "team_loop"
    /\ LET team_stats == SortByAccuracy(TeamStats(team_performance))
       IN /\ report' = [team_stats |-> team_stats,
                        top |-> FirstN(team_stats, TopN),
                        bottom |-> LastN(team_stats, TopN)]
          /\ exception' = IF \E i \in DOMAIN team_stats : team_stats[i].accuracy = ZeroDivisionError
                          THEN "ZeroDivisionError" ELSE exception
          /\ pc' = IF \E i \in DOMAIN team_stats : team_stats[i].accuracy = ZeroDivisionError
                   THEN "crashed" ELSE "team_done"
    /\ UNCHANGED locals

\* gameId and correct are all analyze_team_venue_patterns reads
TeamGames ==
    {MkGame(id, Friday30, "Over", correct, 76, None, None, None) :
        id \in WellFormedIds \cup MalformedIds, correct \in BOOLEAN}

----------------------------------------------------------------------------
(* analyze_model_weighting_opportunities (detailed_edge_analysis.py)       *)

WeightingScenarios == <<"high_temp", "low_temp", "high_wind", "low_wind", "weekend", "weekday">>

\* the three tallies of one model of one game (lines 128-144)
TallyModel(perf, model_name, model_data, temp, wind, is_weekend) ==
    LET temp_scenario == IF temp > 90 THEN "high_temp" ELSE "low_temp"
        wind_scenario == IF wind > 12 THEN "high_wind" ELSE "low_wind"
        day_scenario == IF is_weekend THEN "weekend" ELSE "weekday"
        p1 == [perf EXCEPT ![temp_scenario] = Tally(@, model_name, model_data.correct)]
        p2 == [p1 EXCEPT ![wind_scenario] = Tally(@, model_name, model_data.correct)]
    IN [p2 EXCEPT ![day_scenario] = Tally(@, model_name, model_data.correct)]

RECURSIVE TallyModels(_, _, _, _, _)
\* for model_name, model_data in game['modelBreakdown'].items()
TallyModels(perf, breakdown, temp, wind, is_weekend) ==
    IF breakdown = <<>> THEN perf
    ELSE TallyModels(TallyModel(perf, Head(breakdown)[1], Head(breakdown)[2], temp, wind, is_weekend),
                     Tail(breakdown), temp, wind, is_weekend)

\* if 'modelBreakdown' not in game or 'weatherData' not in game: continue
WeightingSkips(g) == ~IsSome(g.modelBreakdown) \/ ~IsSome(g.weatherData)

\* one iteration of `for game in results` (lines 115-144)
WeightingStep(g) ==
    /\ pc = "weighting_loop"
    /\ n < MaxRankGames
    /\ n' = n + 1
    /\ game' = Some(g)
    /\ model_performance_by_scenario' =
         IF WeightingSkips(g)
         THEN model_performance_by_scenario
         ELSE TallyModels(model_performance_by_scenario, g.modelBreakdown[1],
                          Get(g.weatherData[1].temp_f, 85),
                          Get(g.weatherData[1].wind_mph, 10),
                          DayOfWeek(g.gameDate) \in {"Friday", "Saturday", "Sunday"})
    /\ UNCHANGED <<pc, exception, report, scenarioLocals, teamLocals, weatherLocals,
                   temporalLocals, over_under_performance>>

RECURSIVE ModelAccs(_)
\* lines 149-153: (model_name, accuracy, total) of the models with total > 5
ModelAccs(models) ==
    IF models = <<>> THEN <<>>
    ELSE LET stats == Head(models)[2]
         IN (IF stats.total > MinSample
             THEN <<[key |-> Head(models)[1], accuracy |-> Div(stats.correct, stats.total),
                     total |-> stats.total]>>
             ELSE <<>>) \o ModelAccs(Tail(models))

\* lines 147-157: per scenario, the ranked list of models
WeightingReport ==
    /\ pc = "weighting_loop"
    /\ report' = [s \in Range(WeightingScenarios) |->
                    SortByAccuracy(ModelAccs(model_performance_by_scenario[s]))]
    /\ pc' = "weighting_done"
    /\ UNCHANGED <<exception, locals>>

\* modelBreakdown, weatherData and gameDate are all the function reads
WeightingGames ==
    {MkGame(IdOther, date, "Over", TRUE, 76, None, weather, breakdown) :
        date \in {Friday30, Monday2},
        weather \in {None, Some(MkWeather(Some("few clouds"), Some(95), Some(15), Some(50))),
                     Some(MkWeather(Some("few clouds"), None, None, None))},
        breakdown \in {None, Some(VotesAgree), Some(VotesSplit)}}

----------------------------------------------------------------------------
(* analyze_weather_patterns (analyze_backtest.py)                          *)

TempBands == <<"Cold (<70F)", "Mild (70-85F)", "Hot (85-95F)", "Very Hot (>95F)">>

\* defaultdict(lambda: {'correct': 0, 'total': 0, 'temps': [], 'winds': [], 'humidity': []})
NoWeatherStats == [correct |-> 0, total |-> 0, temps |-> <<>>, winds |-> <<>>, humidity |-> <<>>]

\* lines 98-104 on weather_performance[condition]
WeatherCounted(stats, weather, correct) ==
    [correct |-> stats.correct + (IF correct THEN 1 ELSE 0),
     total |-> stats.total + 1,
     temps |-> Append(stats.temps, Get(weather.temp_f, 0)),
     winds |-> Append(stats.winds, Get(weather.wind_mph, 0)),
     humidity |-> Append(stats.humidity, Get(weather.humidity, 0))]

\* lines 94-104
WeatherTally(perf, g) ==
    IF IsSome(g.weatherData)
    THEN LET condition == Get(g.weatherData[1].condition, "unknown")
             touched == Touch(perf, condition, NoWeatherStats)
         IN Store(touched, condition, WeatherCounted(Lookup(touched, condition), g.weatherData[1], g.correct))
    ELSE perf

\* one iteration of the first `for game in results` (lines 93-104)
WeatherConditionStep(g) ==
    /\ pc = "weather_conditions"
    /\ n < MaxGames
    /\ n' = n + 1
    /\ game' = Some(g)
    /\ results' = Append(results, g)
    /\ weather_performance' = WeatherTally(weather_performance, g)
    /\ UNCHANGED <<pc, exception, report, temp_ranges, scenarioLocals, teamLocals,
                   temporalLocals, model_performance_by_scenario, over_under_performance>>

RECURSIVE Sum(_)
Sum(s) == IF s = <<>> THEN 0 ELSE Head(s) + Sum(Tail(s))

\* np.mean(values) if values else 0
MeanOrZero(values) == IF values # <<>> THEN Div(Sum(values), Len(values)) ELSE <<0, 1>>

\* lines 109-117: one condition's printed block, printed only if total > 0
ConditionStats(stats) ==
    IF stats.total > 0
    THEN [shown |-> TRUE, games |-> stats.total, correct |-> stats.correct,
          accuracy |-> Some(Div(stats.correct, stats.total)),
          avg_temp |-> Some(MeanOrZero(stats.temps)),
          avg_wind |-> Some(MeanOrZero(stats.winds)),
          avg_humidity |-> Some(MeanOrZero(stats.humidity))]
    ELSE [shown |-> FALSE, games |-> 0, correct |-> 0, accuracy |-> None,
          avg_temp |-> None, avg_wind |-> None, avg_humidity |-> None]

\* lines 107-121: the per-condition report; the second loop starts
WeatherConditionReport ==
    /\ pc = "weather_conditions"
    /\ Finish([c \in Range(Keys(weather_performance)) |->
                  ConditionStats(Lookup(weather_performance, c))], "weather_temps")
    /\ n' = 0
    /\ game' = None
    /\ UNCHANGED <<scenarioLocals, teamLocals, weatherLocals, temporalLocals,
                   model_performance_by_scenario, over_under_performance>>

\* the bands with <= for <: each threshold in the band below it
TempBandInclusive(temp) ==
    IF temp <= 70 THEN TempBands[1]
    ELSE IF temp <= 85 THEN TempBands[2]
    ELSE IF temp <= 95 THEN TempBands[3]
    ELSE TempBands[4]

\* lines 126-133: the band of a temperature
TempBand(temp) ==
    IF temp < 70 THEN TempBands[1]
    ELSE IF temp < 85 THEN TempBands[2]
    ELSE IF temp < 95 THEN TempBands[3]
    ELSE TempBands[4]

\* if 'weatherData' in game and 'temp_f' in game['weatherData']
HasTemp(g) == IsSome(g.weatherData) /\ IsSome(g.weatherData[1].temp_f)

\* one iteration of the second `for game in results` (lines 123-133)
WeatherTempStep ==
    /\ pc = "weather_temps"
    /\ n < Len(results)
    /\ n' = n + 1
    /\ game' = Some(results[n + 1])
    /\ temp_ranges' =
         IF HasTemp(results[n + 1])
         THEN [temp_ranges EXCEPT ![TempBand(results[n + 1].weatherData[1].temp_f[1])] =
                                      Append(@, results[n + 1].correct)]
         ELSE temp_ranges
    /\ UNCHANGED <<pc, exception, report, results, weather_performance, scenarioLocals,
                   teamLocals, temporalLocals, model_performance_by_scenario,
                   over_under_performance>>

\* lines 137-139: one band's printed line, printed only `if results_list`
BandStats(results_list) ==
    LET correct == Cardinality({i \in DOMAIN results_list : results_list[i]})
    IN IF results_list # <<>>
       THEN Shown(Len(results_list), correct, Div(correct, Len(results_list)))
       ELSE NotShown

\* lines 135-142
WeatherTempReport ==
    /\ pc = "weather_temps"
    /\ n = Len(results)
    /\ Finish([b \in Range(TempBands) |-> BandStats(temp_ranges[b])], "weather_done")
    /\ UNCHANGED locals

\* weatherData and correct are all analyze_weather_patterns reads
WeatherGames ==
    {MkGame(IdOther, Friday30, "Over", correct, 76, None, weather, None) :
        correct \in BOOLEAN,
        weather \in {None} \cup
                    {Some(MkWeather(condition, temp_f, Some(8), Some(50))) :
                        condition \in {Some("few clouds"), None},
                        temp_f \in {None, Some(69), Some(70), Some(84), Some(85), Some(94), Some(95)}}}

----------------------------------------------------------------------------
(* analyze_temporal_patterns (analyze_backtest.py)                         *)

\* one iteration of `for game in results` (lines 152-162)
TemporalStep(g) ==
    /\ pc = "temporal_loop"
    /\ n < MaxGames
    /\ n' = n + 1
    /\ game' = Some(g)
    /\ day_performance' = Tally(day_performance, DayOfWeek(g.gameDate), g.correct)
    /\ month_performance' = Tally(month_performance, MonthName(g.gameDate), g.correct)
    /\ UNCHANGED <<pc, exception, report, scenarioLocals, teamLocals, weatherLocals,
                   model_performance_by_scenario, over_under_performance>>

\* accuracy = stats['correct'] / stats['total'] if stats['total'] > 0 else 0
GuardedStats(stats) ==
    Shown(stats.total, stats.correct,
          IF stats.total > 0 THEN Div(stats.correct, stats.total) ELSE <<0, 1>>)

\* lines 164-180: a line per day of days_order that is a key, and per month
TemporalReport ==
    /\ pc = "temporal_loop"
    /\ Finish([k \in Range(Keys(day_performance)) \cup Range(Keys(month_performance)) |->
                  IF k \in Range(DayNames)
                  THEN GuardedStats(Lookup(day_performance, k))
                  ELSE GuardedStats(Lookup(month_performance, k))], "temporal_done")
    /\ UNCHANGED locals

\* gameDate and correct are all analyze_temporal_patterns reads
TemporalGames ==
    {MkGame(IdOther, date, "Over", correct, 76, None, None, None) :
        date \in {Friday30, Saturday31, Sunday1, Monday2}, correct \in BOOLEAN}

----------------------------------------------------------------------------
(* identify_prediction_patterns (detailed_edge_analysis.py)                *)

PredictionTypes == <<"Over", "Under">>

\* lines 172-183 on over_under_performance[prediction]
OverUnderCounted(stats, g) ==
    [correct |-> stats.correct + (IF g.correct THEN 1 ELSE 0),
     total |-> stats.total + 1,
     by_temp |-> IF IsSome(g.weatherData)
                 THEN Tally(stats.by_temp,
                            IF Get(g.weatherData[1].temp_f, 85) > 90
                            THEN "Hot (>90F)" ELSE "Moderate (<=90F)",
                            g.correct)
                 ELSE stats.by_temp]

\* one iteration of `for game in results` (lines 168-183)
PredictionStep(g) ==
    /\ pc = "prediction_loop"
    /\ n < MaxGames
    /\ n' = n + 1
    /\ game' = Some(g)
    /\ over_under_performance' =
         [over_under_performance EXCEPT ![g.prediction] = OverUnderCounted(@, g)]
    /\ UNCHANGED <<pc, exception, report, scenarioLocals, teamLocals, weatherLocals,
                   temporalLocals, model_performance_by_scenario>>

\* lines 190-193: a temperature range's line, printed only if total > 0
TempRangeStats(stats) ==
    IF stats.total > 0
    THEN Shown(stats.total, stats.correct, Div(stats.correct, stats.total))
    ELSE NotShown

\* lines 185-193: a line per prediction type, keyed <<type>>, and per
\* temperature range of it, keyed <<type, range>>
PredictionReport ==
    /\ pc = "prediction_loop"
    /\ Finish([k \in {<<p>> : p \in Range(PredictionTypes)} \cup
                     {<<p, r>> : p \in Range(PredictionTypes),
                                 r \in {"Hot (>90F)", "Moderate (<=90F)"}} |->
                  IF Len(k) = 1
                  THEN GuardedStats(over_under_performance[k[1]])
                  ELSE IF Has(over_under_performance[k[1]].by_temp, k[2])
                  THEN TempRangeStats(Lookup(over_under_performance[k[1]].by_temp, k[2]))
                  ELSE NotShown],
              "prediction_done")
    /\ UNCHANGED locals

\* prediction, correct and weatherData are all identify_prediction_patterns reads
PredictionGames ==
    {MkGame(IdOther, Friday30, prediction, correct, 76, None, weather, None) :
        prediction \in Range(PredictionTypes),
        correct \in BOOLEAN,
        weather \in {None, Some(MkWeather(Some("few clouds"), Some(95), Some(8), Some(50))),
                     Some(MkWeather(Some("few clouds"), Some(90), Some(8), Some(50))),
                     Some(MkWeather(Some("few clouds"), None, Some(8), Some(50)))}}

----------------------------------------------------------------------------
(* analyze_high_confidence_games and analyze_edge_opportunities            *)
(* (analyze_backtest.py): list comprehensions over the whole of results     *)

BoundedSeqs(S, k) == UNION {[1..m -> S] : m \in 0..k}

RECURSIVE Filter(_, _)
\* [game for game in games if keep[game]], keep being the set of games kept
Filter(games, keep) ==
    IF games = <<>> THEN <<>>
    ELSE (IF Head(games) \in keep THEN <<Head(games)>> ELSE <<>>) \o Filter(Tail(games), keep)

\* lines 70-75: nothing but the count is printed for an empty list
HighConfidenceStats(high_conf_games) ==
    IF Len(high_conf_games) = 0
    THEN NotShown
    ELSE Shown(Len(high_conf_games), CorrectCount(high_conf_games),
               Div(CorrectCount(high_conf_games), Len(high_conf_games)))

\* analyze_high_confidence_games(results)
HighConfidence(rs) ==
    /\ pc = "high_confidence"
    /\ Finish([k \in {"high_confidence"} |->
                  HighConfidenceStats(Filter(rs, {g \in Range(rs) : g.confidence > HighConfidenceThreshold}))],
              "high_confidence_done")
    /\ UNCHANGED locals

\* confidence and correct are all analyze_high_confidence_games reads
HighConfidenceGames ==
    {MkGame(IdOther, Friday30, "Over", correct, confidence, None, None, None) :
        correct \in BOOLEAN, confidence \in {75, 76}}

HighEdgeThreshold == 5

\* lines 232-235, 246-249, 254-257: accuracy printed only for a non-empty list
ListStats(games) ==
    IF games # <<>>
    THEN Shown(Len(games), CorrectCount(games), Div(CorrectCount(games), Len(games)))
    ELSE NotShown

\* analyze_edge_opportunities(results)
EdgeOpportunities(rs) ==
    /\ pc = "edge"
    /\ LET high_edge_games == Filter(rs, {g \in Range(rs) : Get(g.edge, 0) > HighEdgeThreshold})
           consensus_games == Filter(rs, {g \in Range(rs) : IsModelConsensus(g)})
           high_conf_consensus ==
               Filter(consensus_games,
                      {g \in Range(rs) : g.confidence > HighConfidenceThreshold})
       IN Finish([k \in {"high_edge", "consensus", "high_conf_consensus"} |->
                     IF k = "high_edge" THEN ListStats(high_edge_games)
                     ELSE IF k = "consensus" THEN ListStats(consensus_games)
                     ELSE ListStats(high_conf_consensus)],
                 "edge_done")
    /\ results' = rs
    /\ UNCHANGED <<game, n, scenarioLocals, teamLocals, weather_performance, temp_ranges,
                   temporalLocals, model_performance_by_scenario, over_under_performance>>

\* edge, modelBreakdown, confidence and correct are all the function reads
EdgeGames ==
    {MkGame(IdOther, Friday30, "Over", correct, confidence, edge, None, breakdown) :
        correct \in BOOLEAN, confidence \in {75, 76}, edge \in {None, Some(5), Some(6)},
        breakdown \in {None, Some(VotesEmpty), Some(VotesAgree), Some(VotesSplit)}}

----------------------------------------------------------------------------
(* Inputs *)

ScenarioGames ==
    {MkGame(id, date, "Over", correct, confidence, Some(3), weather, breakdown) :
        id \in {IdTopAway, IdOther, IdNoAt, IdTwoAts},
        date \in {Friday30, Monday2},
        correct \in BOOLEAN,
        confidence \in {70, 75, 76},
        weather \in {None, Some(MkWeather(Some("few clouds"), Some(72), Some(8), Some(50)))},
        breakdown \in {None, Some(VotesAgree), Some(VotesSplit)}}

\* the games analyze_optimal_betting_scenarios reads in Spec
SmallScenarioGames ==
    {MkGame(id, date, "Over", correct, confidence, Some(3), None, breakdown) :
        id \in {IdTopAway, IdNoAt},
        date \in {Friday30, Monday2},
        correct \in BOOLEAN,
        confidence \in {70, 76},
        breakdown \in {Some(VotesAgree), Some(VotesSplit)}}

\* the games of SpecKelly: only `correct` and `edge` are read by
\* calculate_kelly_criterion
KellyGames ==
    <<MkGame(IdOther, Friday30, "Over", TRUE, 76, Some(3), None, None),
      MkGame(IdOther, Friday30, "Over", TRUE, 76, None, None, None),
      MkGame(IdOther, Friday30, "Over", TRUE, 76, Some(-3), None, None),
      MkGame(IdOther, Friday30, "Over", FALSE, 76, Some(3), None, None),
      MkGame(IdOther, Friday30, "Over", FALSE, 76, None, None, None),
      MkGame(IdOther, Friday30, "Over", FALSE, 76, Some(-3), None, None)>>

KindOf(g) == CHOOSE k \in DOMAIN KellyGames : KellyGames[k] = g

\* The caller's list grows by one game.  accuracy and avg_edge are sums over
\* the list, so one ordering of each multiset of games is enough: the list
\* is built in the order of KellyGames.
KellyArg(k) ==
    /\ pc = "kelly_arg"
    /\ Len(scenarios["combined_optimal"]) < MaxKellyGames
    /\ IF scenarios["combined_optimal"] = <<>>
       THEN TRUE
       ELSE KindOf(scenarios["combined_optimal"][Len(scenarios["combined_optimal"])]) <= k
    /\ scenarios' = [scenarios EXCEPT !["combined_optimal"] = Append(@, KellyGames[k])]
    /\ UNCHANGED <<pc, game, n, exception, away_team, home_team, day_of_week, report,
                   teamLocals, weatherLocals, temporalLocals,
                   model_performance_by_scenario, over_under_performance>>

Init ==
    /\ pc = "main"
    /\ exception = "none"
    /\ report = <<>>
    /\ LocalsFresh

\* analyze_optimal_betting_scenarios over the games of G, then
\* calculate_kelly_criterion on what it returned, as main() runs them
RunScenarios(G) ==
    \/ Call("scenarios_loop")
    \/ pc = "scenarios_loop" /\ \E g \in G : ScenariosStep(g)
    \/ ScenariosReport
    \/ Kelly

RunTeams ==
    \/ Call("team_loop")
    \/ pc = "team_loop" /\ \E g \in TeamGames : TeamStep(g)
    \/ TeamReport

RunWeighting ==
    \/ Call("weighting_loop")
    \/ pc = "weighting_loop" /\ \E g \in WeightingGames : WeightingStep(g)
    \/ WeightingReport

RunWeather ==
    \/ Call("weather_conditions")
    \/ pc = "weather_conditions" /\ \E g \in WeatherGames : WeatherConditionStep(g)
    \/ WeatherConditionReport
    \/ WeatherTempStep
    \/ WeatherTempReport

RunTemporal ==
    \/ Call("temporal_loop")
    \/ pc = "temporal_loop" /\ \E g \in TemporalGames : TemporalStep(g)
    \/ TemporalReport

RunPrediction ==
    \/ Call("prediction_loop")
    \/ pc = "prediction_loop" /\ \E g \in PredictionGames : PredictionStep(g)
    \/ PredictionReport

RunHighConfidence ==
    \/ Call("high_confidence")
    \/ pc = "high_confidence" /\ \E rs \in BoundedSeqs(HighConfidenceGames, MaxGames) : HighConfidence(rs)

RunEdge ==
    \/ Call("edge")
    \/ pc = "edge" /\ \E rs \in BoundedSeqs(EdgeGames, MaxGames) : EdgeOpportunities(rs)

Next ==
    \/ RunScenarios(SmallScenarioGames)
    \/ RunTeams
    \/ RunWeighting
    \/ RunWeather
    \/ RunTemporal
    \/ RunPrediction
    \/ RunHighConfidence
    \/ RunEdge
    \/ Return

Spec == Init /\ [][Next]_vars

InitKelly ==
    /\ pc = "kelly_arg"
    /\ exception = "none"
    /\ report = <<>>
    /\ LocalsFresh

NextKelly ==
    \/ \E k \in DOMAIN KellyGames : KellyArg(k)
    \/ Kelly

SpecKelly == InitKelly /\ [][NextKelly]_vars

NextScenarios ==
    \/ RunScenarios(ScenarioGames)
    \/ Return

SpecScenarios == Init /\ [][NextScenarios]_vars

\* the games of SpecStandalone: every way a standalone predicate of lines
\* 35-53 can hold or fail, the gameId well formed
StandaloneGames ==
    {MkGame(IdTopAway, dw[1], "Over", TRUE, confidence, Some(3), dw[2], breakdown) :
        dw \in {<<Friday30, None>>,
                <<Sunday1, Some(MkWeather(Some("few clouds"), Some(72), Some(8), Some(50)))>>,
                <<Monday2, Some(MkWeather(Some("few clouds"), Some(72), Some(8), Some(50)))>>,
                <<Monday2, Some(MkWeather(Some("clear sky"), Some(72), Some(8), Some(50)))>>,
                <<Friday30, Some(MkWeather(None, Some(72), Some(8), Some(50)))>>,
                <<Monday2, None>>},
        confidence \in {75, 76},
        breakdown \in {None, Some(VotesEmpty), Some(VotesAgree), Some(VotesSplit)}}

\* the teams of the games of SpecSeason, an away and a home team per pairing
TeamPool ==
    <<"ArizonaDiamondbacks", "AtlantaBraves", "BostonRedSox", "ChicagoWhiteSox",
      "ClevelandGuardians", "DetroitTigers", "HoustonAstros", "KansasCityRoyals",
      "LosAngelesDodgers", "MilwaukeeBrewers", "MinnesotaTwins", "NewYorkYankees",
      "PittsburghPirates", "SanDiegoPadres", "SeattleMariners", "TampaBayRays">>

\* the games of one pairing that put both its teams above the minimum sample
GamesPerPairing == MinSample + 1

\* the gameId of the games of the k-th pairing
PairingId(k) == <<"2025-05-30", "_", TeamPool[2 * k - 1], "@", TeamPool[2 * k]>>

\* A results long enough for more than TopN ranked teams: the pairings play
\* their games one after the other.  The ranked list depends on each
\* team's counts only, so of a pairing's games either all, the first half
\* or none are correct.
SeasonStep ==
    /\ n < MaxSeasonGames
    /\ (n \div GamesPerPairing) + 1 <= Len(TeamPool) \div 2
    /\ \E correct \in BOOLEAN :
          LET played == n % GamesPerPairing
              half == GamesPerPairing \div 2
          IN /\ (played # 0 /\ played # half) => correct = game[1].correct
             /\ (played = half /\ correct) => game[1].correct
             /\ TeamIteration(MkGame(PairingId((n \div GamesPerPairing) + 1), Friday30, "Over",
                                     correct, 76, None, None, None))

NextSeason ==
    \/ Call("team_loop")
    \/ pc = "team_loop" /\ SeasonStep
    \/ TeamReport
    \/ Return

SpecSeason == Init /\ [][NextSeason]_vars

NextStandalone ==
    \/ RunScenarios(StandaloneGames)
    \/ RunEdge
    \/ Return

SpecStandalone == Init /\ [][NextStandalone]_vars

----------------------------------------------------------------------------
(* Properties: analyze_optimal_betting_scenarios                           *)

\* an iteration of the scenario loop has just run on game'
ScenarioIteration == pc = "scenarios_loop" /\ n' = n + 1

\* the iteration put its record in the combined-optimal scenario
AddedToCombined ==
    Len(scenarios'["combined_optimal"]) = Len(scenarios["combined_optimal"]) + 1

\* the top-team criterion of a record by itself: false unless its own gameId
\* has the form <date>_<away>@<home> with away or home in the allow-list
OwnTeamCriterion(g) ==
    /\ g.gameId \in WellFormedIds
    /\ \E t \in top_teams : g.gameId[3] = t[1] \/ g.gameId[5] = t[1]

\* the number of the five criteria that hold for the record by itself
OwnCriteria(g) ==
    Cardinality({c \in 1..5 :
        \/ c = 1 /\ g.confidence > 70
        \/ c = 2 /\ IsSome(g.modelBreakdown) /\ g.modelBreakdown[1] # <<>>
                 /\ \A i, j \in DOMAIN g.modelBreakdown[1] :
                        g.modelBreakdown[1][i][2].prediction = g.modelBreakdown[1][j][2].prediction
        \/ c = 3 /\ DayOfWeek(g.gameDate) \in {"Friday", "Sunday"}
        \/ c = 4 /\ IsSome(g.weatherData) /\ g.weatherData[1].condition = Some("few clouds")
        \/ c = 5 /\ OwnTeamCriterion(g)})

(* C1: when an iteration on a record whose gameId does not parse into
   away/home teams completes, the record is in the combined-optimal scenario
   exactly when at least 3 criteria hold with its team criterion false: the
   teams parsed from an earlier record play no part. *)
C1_TeamCriterionFromCurrentRecordOnly ==
    [][(ScenarioIteration /\ pc' = "scenarios_loop" /\ game'[1].gameId \in MalformedIds)
          => (AddedToCombined <=> OwnCriteria(game'[1]) >= 3)]_vars

\* an iteration of a loop that parses gameId has just run on game'
ParsingIteration == pc \in {"scenarios_loop", "team_loop"} /\ n' = n + 1

(* C2: a record whose gameId does not parse into one away and one home team
   is never fatal, at any position: the iteration raises nothing and leaves
   the team buckets, the venue buckets and the top-team scenario as they
   were. *)
C2_MalformedGameIdNeverFatal ==
    [][(ParsingIteration /\ game'[1].gameId \in MalformedIds)
          => /\ exception' = "none"
             /\ team_performance' = team_performance
             /\ venue_performance' = venue_performance
             /\ scenarios'["top_teams"] = scenarios["top_teams"]]_vars

(* C3: every iteration puts its record in the combined-optimal scenario if
   and only if at least 3 of the 5 criteria hold for that record, each
   criterion counting once and confidence 0.70 not counting. *)
C3_CombinedIffThreeOfFive ==
    [][ScenarioIteration => (AddedToCombined <=> OwnCriteria(game'[1]) >= 3)]_vars

----------------------------------------------------------------------------
(* Properties: calculate_kelly_criterion                                   *)

\* the report of calculate_kelly_criterion is in `report`
KellyReported == pc = "kelly_done"

(* C4: the gate prevents a negative bet size: for every non-empty scenario,
   whenever a bet size is recommended (accuracy > 0.5 and average edge > 0,
   b = 0.9), the reported kellyFraction is not negative. *)
C4_RecommendedFractionNotNegative ==
    KellyReported =>
        \A s \in DOMAIN report :
            report[s].recommended => ~RatLt(report[s].kelly_fraction[1], <<0, 1>>)

(* C5: for every non-empty scenario, with p = correct/games and e the mean
   edge (absent edge 0), the report is "not recommended" with no fraction
   exactly when p <= 0.5 or e <= 0, and otherwise kellyFraction =
   (0.9 p - (1 - p)) / 0.9 = (19 correct - 10 games) / (9 games) and
   kellyPercentage = 100 kellyFraction; p = 0.50 is not recommended and
   p = 0.55 with e = 3 gives 0.05 and 5.00. *)
C5_KellyGateAndFormula ==
    KellyReported =>
        \A s \in DOMAIN report :
            LET c == CorrectCount(scenarios[s])
                total == Len(scenarios[s])
                e == SumEdge(scenarios[s])
                r == report[s]
            IN scenarios[s] # <<>> =>
                /\ r.shown
                /\ r.recommended <=> ~(2 * c <= total \/ e <= 0)
                /\ ~r.recommended => (r.kelly_fraction = None /\ r.kelly_percentage = None)
                /\ r.recommended =>
                      /\ r.kelly_fraction[1][2] > 0 /\ r.kelly_percentage[1][2] > 0
                      /\ RatEq(r.kelly_fraction[1], <<19 * c - 10 * total, 9 * total>>)
                      /\ RatEq(r.kelly_percentage[1], <<100 * (19 * c - 10 * total), 9 * total>>)
                /\ (20 * c = 11 * total /\ e = 3 * total) =>
                      /\ r.recommended
                      /\ RatEq(r.kelly_fraction[1], <<5, 100>>)
                      /\ RatEq(r.kelly_percentage[1], <<5, 1>>)

\* p = 0.55 and e = 3: 11 correct of 20, every edge 3
C5_Witness ==
    /\ KellyReported
    /\ Len(scenarios["combined_optimal"]) = 20
    /\ CorrectCount(scenarios["combined_optimal"]) = 11
    /\ SumEdge(scenarios["combined_optimal"]) = 60
    /\ report["combined_optimal"].recommended
    /\ RatEq(report["combined_optimal"].kelly_percentage[1], <<5, 1>>)

----------------------------------------------------------------------------
(* Properties: ranking                                                     *)

\* the team names and the model names of the inputs, in lexicographic order
TeamLexOrder == <<<<"ChicagoCubs">>, <<"MiamiMarlins">>, <<"NewYorkMets">>, <<"TexasRangers">>>>

ModelLexOrder == <<"Model_A_Pitching", "Model_B_Offense">>

PosIn(s, x) == CHOOSE i \in DOMAIN s : s[i] = x

\* the ranked list holds exactly the groups of perf with more than 5 games,
\* once each, with accuracy = correct / total
ExactlyTheSampled(ranked, perf) ==
    /\ {ranked[i].key : i \in DOMAIN ranked}
          = {perf[i][1] : i \in {j \in DOMAIN perf : perf[j][2].total > 5}}
    /\ \A i, j \in DOMAIN ranked : ranked[i].key = ranked[j].key => i = j
    /\ \A i \in DOMAIN ranked :
          /\ ranked[i].total = Lookup(perf, ranked[i].key).total
          /\ ranked[i].accuracy[2] > 0
          /\ RatEq(ranked[i].accuracy,
                   <<Lookup(perf, ranked[i].key).correct, Lookup(perf, ranked[i].key).total>>)

\* accuracy descending, then gamesCount descending, then lexicographic key
OrderedWithTieBreaks(ranked, lex) ==
    \A i, j \in DOMAIN ranked :
        i < j =>
            \/ RatLt(ranked[j].accuracy, ranked[i].accuracy)
            \/ /\ RatEq(ranked[i].accuracy, ranked[j].accuracy)
               /\ \/ ranked[i].total > ranked[j].total
                  \/ /\ ranked[i].total = ranked[j].total
                     /\ PosIn(lex, ranked[i].key) < PosIn(lex, ranked[j].key)

\* accuracy descending, groups of equal accuracy in the order their keys were
\* first inserted in perf
OrderedKeepingInsertionOrder(ranked, perf) ==
    \A i, j \in DOMAIN ranked :
        i < j =>
            \/ RatLt(ranked[j].accuracy, ranked[i].accuracy)
            \/ /\ RatEq(ranked[i].accuracy, ranked[j].accuracy)
               /\ PosIn(Keys(perf), ranked[i].key) < PosIn(Keys(perf), ranked[j].key)

(* C6, as claimed: the ranked team list and the per-scenario model lists hold
   exactly the groups with gamesCount > 5, ordered by accuracy descending,
   ties broken by gamesCount descending and then by lexicographic key. *)
C6_RankedWithTieBreaks ==
    /\ pc = "team_done" =>
          /\ ExactlyTheSampled(report.team_stats, team_performance)
          /\ OrderedWithTieBreaks(report.team_stats, TeamLexOrder)
    /\ pc = "weighting_done" =>
          \A s \in DOMAIN report :
              /\ ExactlyTheSampled(report[s], model_performance_by_scenario[s])
              /\ OrderedWithTieBreaks(report[s], ModelLexOrder)

(* C6, amended: the lists hold exactly the groups with gamesCount > 5,
   ordered by accuracy descending; groups of equal accuracy keep the order in
   which their keys were first inserted while the records were read, whatever
   their sample counts and names. *)
C6_RankedKeepingInsertionOrder ==
    /\ pc = "team_done" =>
          /\ ExactlyTheSampled(report.team_stats, team_performance)
          /\ OrderedKeepingInsertionOrder(report.team_stats, team_performance)
    /\ pc = "weighting_done" =>
          \A s \in DOMAIN report :
              /\ ExactlyTheSampled(report[s], model_performance_by_scenario[s])
              /\ OrderedKeepingInsertionOrder(report[s], model_performance_by_scenario[s])

\* two teams of equal accuracy and equal sample count, ranked against the
\* lexicographic order of their names
C6_Witness ==
    /\ pc = "team_done"
    /\ \E i, j \in DOMAIN report.team_stats :
          /\ i < j
          /\ RatEq(report.team_stats[i].accuracy, report.team_stats[j].accuracy)
          /\ report.team_stats[i].total = report.team_stats[j].total
          /\ PosIn(TeamLexOrder, report.team_stats[i].key)
                > PosIn(TeamLexOrder, report.team_stats[j].key)

----------------------------------------------------------------------------
(* Properties: missing weatherData                                         *)

RECURSIVE TotalGames(_)
\* the sum of the totals of a grouping
TotalGames(perf) ==
    IF perf = <<>> THEN 0 ELSE Head(perf)[2].total + TotalGames(Tail(perf))

\* an iteration of a loop over results has just run on a game without weatherData
IterationWithoutWeather ==
    /\ pc \in {"weather_conditions", "temporal_loop", "team_loop", "prediction_loop",
               "weighting_loop"}
    /\ n' = n + 1
    /\ ~IsSome(game'[1].weatherData)

(* C7: a record without weatherData is left out of the weather groupings
   only: it is counted by day of week, month, team, venue, prediction side
   and in the weekend/weekday per-model grouping, and its absence raises
   nothing. *)
C7_MissingWeatherOnlyAffectsWeather ==
    [][IterationWithoutWeather =>
          /\ (pc = "team_loop" => game'[1].gameId \in WellFormedIds) => exception' = exception
          /\ pc = "weather_conditions" => weather_performance' = weather_performance
          /\ pc = "temporal_loop" =>
                /\ TotalGames(day_performance') = TotalGames(day_performance) + 1
                /\ TotalGames(month_performance') = TotalGames(month_performance) + 1
          /\ (pc = "team_loop" /\ game'[1].gameId \in WellFormedIds) =>
                /\ TotalGames(team_performance') = TotalGames(team_performance) + 2
                /\ TotalGames(venue_performance') = TotalGames(venue_performance) + 1
          /\ pc = "prediction_loop" =>
                over_under_performance'[game'[1].prediction].total
                    = over_under_performance[game'[1].prediction].total + 1
          /\ (pc = "weighting_loop" /\ IsSome(game'[1].modelBreakdown)) =>
                TotalGames(model_performance_by_scenario'["weekend"])
                  + TotalGames(model_performance_by_scenario'["weekday"])
                    = TotalGames(model_performance_by_scenario["weekend"])
                      + TotalGames(model_performance_by_scenario["weekday"])
                      + Len(game'[1].modelBreakdown[1])]_vars

----------------------------------------------------------------------------
(* Properties: temperature bands                                           *)

\* the band the thresholds 70, 85 and 95 assign, each threshold belonging to
\* the band above it
InBand(b, temp) ==
    \/ b = "Cold (<70F)" /\ temp < 70
    \/ b = "Mild (70-85F)" /\ temp >= 70 /\ temp < 85
    \/ b = "Hot (85-95F)" /\ temp >= 85 /\ temp < 95
    \/ b = "Very Hot (>95F)" /\ temp >= 95

RECURSIVE CorrectFlagsInBand(_, _)
\* game['correct'] of the games of rs that have a temp_f of band b, in order
CorrectFlagsInBand(rs, b) ==
    IF rs = <<>> THEN <<>>
    ELSE (IF HasTemp(Head(rs)) /\ InBand(b, Head(rs).weatherData[1].temp_f[1])
          THEN <<Head(rs).correct>> ELSE <<>>) \o CorrectFlagsInBand(Tail(rs), b)

BandSizes == Sum([i \in DOMAIN TempBands |-> Len(temp_ranges[TempBands[i]])])

(* C8: the temperature bands are a total, non-overlapping partition: every
   record with a temp_f is appended to exactly one band, temp < 70 Cold,
   70 <= temp < 85 Mild, 85 <= temp < 95 Hot, temp >= 95 Very Hot, and the
   band sizes sum to the number of records that have temp_f. *)
C8_TemperatureBandsPartition ==
    pc \in {"weather_temps", "weather_done"} =>
        /\ \A b \in Range(TempBands) :
              temp_ranges[b] = CorrectFlagsInBand(SubSeq(results, 1, n), b)
        /\ BandSizes = Cardinality({i \in 1..n : HasTemp(results[i])})

\* a record at the threshold 85, one at 95 or 70, both banded
C8_Witness ==
    /\ pc = "weather_done"
    /\ Len(results) = 2
    /\ HasTemp(results[1]) /\ results[1].weatherData[1].temp_f[1] = 85
    /\ HasTemp(results[2]) /\ results[2].weatherData[1].temp_f[1] \in {70, 95}
    /\ Len(temp_ranges["Hot (85-95F)"]) = 1
    /\ BandSizes = 2

----------------------------------------------------------------------------
(* Properties: counts and accuracies                                       *)

\* 0 <= correct <= total for every key of a grouping
CountsInRange(perf) ==
    \A i \in DOMAIN perf : 0 <= perf[i][2].correct /\ perf[i][2].correct <= perf[i][2].total

\* accuracy is correct / total and lies in [0, 1]
IsAccuracyOf(accuracy, correct, total) ==
    /\ accuracy[2] > 0
    /\ RatEq(accuracy, <<correct, total>>)
    /\ RatLe(<<0, 1>>, accuracy)
    /\ RatLe(accuracy, <<1, 1>>)

\* a printed block of a group with games: its accuracy is correct / total
ReportsAccuracyOf(entry, correct, total) ==
    total > 0 => (entry.shown /\ entry.games = total /\ IsSome(entry.accuracy)
                  /\ IsAccuracyOf(entry.accuracy[1], correct, total))

\* a ranked list: each entry's accuracy is that of its key in perf
RankedAccuracies(ranked, perf) ==
    \A i \in DOMAIN ranked :
        /\ Has(perf, ranked[i].key)
        /\ IsAccuracyOf(ranked[i].accuracy, Lookup(perf, ranked[i].key).correct,
                        Lookup(perf, ranked[i].key).total)

(* C9: in every grouping, after any prefix of the records, each key has
   0 <= correctCount <= gamesCount, and for every key with gamesCount > 0 the
   reported accuracy equals correctCount / gamesCount and lies in [0, 1]. *)
C9_CountsAndAccuracy ==
    /\ CountsInRange(weather_performance)
    /\ CountsInRange(day_performance)
    /\ CountsInRange(month_performance)
    /\ CountsInRange(team_performance)
    /\ CountsInRange(venue_performance)
    /\ \A s \in DOMAIN model_performance_by_scenario :
          CountsInRange(model_performance_by_scenario[s])
    /\ \A p \in DOMAIN over_under_performance :
          /\ 0 <= over_under_performance[p].correct
          /\ over_under_performance[p].correct <= over_under_performance[p].total
          /\ CountsInRange(over_under_performance[p].by_temp)
    /\ pc = "weather_temps" =>
          \A c \in DOMAIN report :
              ReportsAccuracyOf(report[c], Lookup(weather_performance, c).correct,
                                Lookup(weather_performance, c).total)
    /\ pc = "temporal_done" =>
          \A k \in DOMAIN report :
              LET stats == IF Has(day_performance, k) THEN Lookup(day_performance, k)
                           ELSE Lookup(month_performance, k)
              IN ReportsAccuracyOf(report[k], stats.correct, stats.total)
    /\ pc = "team_done" => RankedAccuracies(report.team_stats, team_performance)
    /\ pc = "weighting_done" =>
          \A s \in DOMAIN report : RankedAccuracies(report[s], model_performance_by_scenario[s])
    /\ pc = "prediction_done" =>
          \A p \in DOMAIN over_under_performance :
              /\ ReportsAccuracyOf(report[<<p>>], over_under_performance[p].correct,
                                   over_under_performance[p].total)
              /\ \A i \in DOMAIN over_under_performance[p].by_temp :
                    LET r == over_under_performance[p].by_temp[i]
                    IN ReportsAccuracyOf(report[<<p, r[1]>>], r[2].correct, r[2].total)
    /\ pc = "scenarios_done" =>
          \A s \in DOMAIN report :
              ReportsAccuracyOf(report[s], CorrectCount(scenarios[s]), Len(scenarios[s]))

\* a day with one correct prediction of two: accuracy 1/2
C9_Witness ==
    /\ pc = "temporal_done"
    /\ Has(day_performance, "Friday")
    /\ Lookup(day_performance, "Friday") = [correct |-> 1, total |-> 2]
    /\ RatEq(report["Friday"].accuracy[1], <<1, 2>>)

----------------------------------------------------------------------------
(* Properties: empty groups                                                *)

\* the block of a group is printed, with accuracy 0
ReportsZero(entry) ==
    /\ entry.shown
    /\ IsSome(entry.accuracy)
    /\ entry.accuracy[1][2] > 0
    /\ entry.accuracy[1][1] = 0

\* nothing is printed of the group's statistics
Omits(entry) == ~entry.shown /\ entry.accuracy = None

\* the groups without games of the function that has just reported, each
\* with what the report says of it
EmptyGroups ==
    IF pc \in {"scenarios_done", "kelly_done"}
    THEN {report[s] : s \in {t \in DOMAIN report : scenarios[t] = <<>>}}
    ELSE IF pc = "weather_done"
    THEN {report[b] : b \in {t \in DOMAIN report : temp_ranges[t] = <<>>}}
    ELSE IF pc \in {"high_confidence_done", "edge_done", "temporal_done", "weather_temps"}
    THEN {report[k] : k \in {t \in DOMAIN report : report[t].games = 0}}
    ELSE {}

\* the prediction sides without games, and the temperature ranges without
\* games, of identify_prediction_patterns
EmptyPredictionSides ==
    IF pc = "prediction_done"
    THEN {report[<<p>>] : p \in {t \in DOMAIN over_under_performance :
                                    over_under_performance[t].total = 0}}
    ELSE {}

EmptyPredictionRanges ==
    IF pc = "prediction_done"
    THEN {report[k] : k \in {t \in DOMAIN report :
                                Len(t) = 2 /\ ~Has(over_under_performance[t[1]].by_temp, t[2])}}
    ELSE {}

(* C10, as claimed: for every grouping or scenario with gamesCount = 0, the
   empty record collection included, accuracy is reported as 0 and no
   division by zero is raised. *)
C10_EmptyGroupsReportZero ==
    /\ exception # "ZeroDivisionError"
    /\ \A entry \in EmptyGroups \cup EmptyPredictionSides \cup EmptyPredictionRanges :
          ReportsZero(entry)

(* C10, amended: no computation divides by zero, whatever groups are empty.
   A prediction side without games is reported with accuracy 0; of an empty
   scenario, Kelly scenario, temperature band, temperature range of a
   prediction side, high-confidence list or edge list no accuracy is
   reported at all. *)
C10_EmptyGroupsNeverDivide ==
    /\ exception # "ZeroDivisionError"
    /\ \A entry \in EmptyPredictionSides : ReportsZero(entry)
    /\ \A entry \in EmptyGroups \cup EmptyPredictionRanges : Omits(entry)

\* the empty record collection, reported by identify_prediction_patterns and
\* by analyze_optimal_betting_scenarios
C10_Witness ==
    /\ n = 0
    /\ \/ pc = "prediction_done" /\ EmptyPredictionSides # {} /\ EmptyPredictionRanges # {}
       \/ pc = "scenarios_done" /\ Cardinality(EmptyGroups) = 1

----------------------------------------------------------------------------
(* Properties: standalone scenarios                                        *)

\* the predicate of each standalone scenario, of the record alone
OwnPredicate(name, g) ==
    \/ name = "high_confidence_only" /\ g.confidence > 75
    \/ name = "model_consensus"
          /\ IsSome(g.modelBreakdown)
          /\ Len(g.modelBreakdown[1]) >= 1
          /\ \A i, j \in DOMAIN g.modelBreakdown[1] :
                g.modelBreakdown[1][i][2].prediction = g.modelBreakdown[1][j][2].prediction
    \/ name = "friday_sunday" /\ DayOfWeek(g.gameDate) \in {"Friday", "Sunday"}
    \/ name = "few_clouds_weather"
          /\ IsSome(g.weatherData)
          /\ g.weatherData[1].condition = Some("few clouds")

StandaloneNames == {"high_confidence_only", "model_consensus", "friday_sunday",
                    "few_clouds_weather"}

\* the number of records of rs that satisfy every predicate of names
CountSatisfying(rs, names) ==
    Cardinality({i \in DOMAIN rs : \A name \in names : OwnPredicate(name, rs[i])})

(* C11: each standalone scenario subset is exactly the records satisfying
   that scenario's own predicate, independently of the other scenarios:
   confidence > 0.75, modelBreakdown with at least one member and identical
   predictions, Friday or Sunday, condition 'few clouds'.  Each iteration
   appends its record to a standalone subset if and only if the record
   satisfies that subset's predicate, and the consensus lists of
   analyze_edge_opportunities count exactly the records that satisfy
   theirs. *)
C11_StandaloneScenariosIndependent ==
    [][/\ ScenarioIteration =>
             \A name \in StandaloneNames :
                 scenarios'[name] = IF OwnPredicate(name, game'[1])
                                    THEN Append(scenarios[name], game'[1])
                                    ELSE scenarios[name]
       /\ (pc = "edge" /\ pc' = "edge_done") =>
             /\ report'["consensus"].games = CountSatisfying(results', {"model_consensus"})
             /\ report'["high_conf_consensus"].games
                   = CountSatisfying(results', {"model_consensus", "high_confidence_only"})]_vars

\* a record in both the high-confidence and the consensus subset, after a
\* record with an empty modelBreakdown that is in neither
C11_Witness ==
    /\ pc = "scenarios_loop"
    /\ n = 2
    /\ scenarios["model_consensus"] = <<game[1]>>
    /\ scenarios["high_confidence_only"] = <<game[1]>>
    /\ \E g \in Range(scenarios["friday_sunday"]) :
          g.modelBreakdown = Some(VotesEmpty) /\ g.confidence = 75

----------------------------------------------------------------------------
(* Properties: top and bottom extracts                                     *)

Smaller(a, b) == IF a < b THEN a ELSE b

(* C12: the top-N and bottom-N extracts of analyze_team_venue_patterns
   (N = 10) are the first N and the last N entries of the ranked, filtered
   list; when the list has fewer than N entries both are the whole list,
   with no error and no padding, the empty list included. *)
C12_TopAndBottomExtracts ==
    pc = "team_done" =>
        LET ranked == report.team_stats
            size == Smaller(10, Len(ranked))
        IN /\ exception = "none"
           /\ Len(report.top) = size
           /\ Len(report.bottom) = size
           /\ \A i \in 1..size :
                 /\ report.top[i] = ranked[i]
                 /\ report.bottom[i] = ranked[Len(ranked) - size + i]
           /\ Len(ranked) < 10 => (report.top = ranked /\ report.bottom = ranked)

\* twelve ranked teams: the extracts differ and each leaves two teams out
C12_Witness ==
    /\ pc = "team_done"
    /\ Len(report.team_stats) = 12
    /\ report.top[1] = report.team_stats[1]
    /\ report.bottom[1] = report.team_stats[3]
    /\ report.top # report.bottom
    /\ RatLt(report.team_stats[12].accuracy, report.team_stats[1].accuracy)

----------------------------------------------------------------------------
(* Properties: missing temp_f and wind_mph                                 *)

\* an iteration of a loop over results has just run on a game whose
\* weatherData is present
IterationWithWeather ==
    /\ pc \in {"weather_conditions", "weather_temps", "weighting_loop", "prediction_loop"}
    /\ n' = n + 1
    /\ IsSome(game'[1].weatherData)

\* the number of values the condition means are taken over
ValuesAveraged(perf, field) == Sum([i \in DOMAIN perf |-> Len(perf[i][2][field])])

(* C13: a record whose weatherData has no temp_f contributes to no
   temperature bucket and to no temperature mean, and one with no wind_mph
   to no wind bucket and no wind mean, in every temperature or wind
   grouping: a missing value is excluded, never replaced by a default. *)
C13_MissingValueNeverDefaulted ==
    [][IterationWithWeather =>
          /\ ~IsSome(game'[1].weatherData[1].temp_f) =>
                /\ ValuesAveraged(weather_performance', "temps")
                      = ValuesAveraged(weather_performance, "temps")
                /\ temp_ranges' = temp_ranges
                /\ model_performance_by_scenario'["high_temp"]
                      = model_performance_by_scenario["high_temp"]
                /\ model_performance_by_scenario'["low_temp"]
                      = model_performance_by_scenario["low_temp"]
                /\ \A p \in DOMAIN over_under_performance :
                      over_under_performance'[p].by_temp = over_under_performance[p].by_temp
          /\ ~IsSome(game'[1].weatherData[1].wind_mph) =>
                /\ ValuesAveraged(weather_performance', "winds")
                      = ValuesAveraged(weather_performance, "winds")
                /\ model_performance_by_scenario'["high_wind"]
                      = model_performance_by_scenario["high_wind"]
                /\ model_performance_by_scenario'["low_wind"]
                      = model_performance_by_scenario["low_wind"]]_vars

----------------------------------------------------------------------------
(* Properties: team and venue buckets                                      *)

TotalOf(perf, k) == IF Has(perf, k) THEN Lookup(perf, k).total ELSE 0

CorrectOf(perf, k) == IF Has(perf, k) THEN Lookup(perf, k).correct ELSE 0

RECURSIVE TotalCorrect(_)
\* the sum of the correct counts of a grouping
TotalCorrect(perf) ==
    IF perf = <<>> THEN 0 ELSE Head(perf)[2].correct + TotalCorrect(Tail(perf))

One(b) == IF b THEN 1 ELSE 0

\* an iteration of the team loop has just run on game'
TeamLoopIteration == pc = "team_loop" /\ n' = n + 1

(* C14: each record whose gameId parses adds exactly 1 to the away team's
   bucket, 1 to the home team's bucket and 1 to the venue bucket of the
   home team, its correct flag counted the same way in each; a record whose
   gameId does not parse adds nothing.  Hence the team totals always sum to
   twice the venue totals, and each venue total is at most the same key's
   team total. *)
C14_TeamAndVenueContributions ==
    [][/\ (TeamLoopIteration /\ game'[1].gameId \in WellFormedIds) =>
             LET away == <<game'[1].gameId[3]>>
                 home == <<game'[1].gameId[5]>>
                 hit == One(game'[1].correct)
             IN /\ \A k \in Range(Keys(team_performance')) \cup {away, home} :
                      /\ TotalOf(team_performance', k)
                            = TotalOf(team_performance, k) + One(k = away) + One(k = home)
                      /\ CorrectOf(team_performance', k)
                            = CorrectOf(team_performance, k) + hit * (One(k = away) + One(k = home))
                /\ \A k \in Range(Keys(venue_performance')) \cup {home} :
                      /\ TotalOf(venue_performance', k)
                            = TotalOf(venue_performance, k) + One(k = home)
                      /\ CorrectOf(venue_performance', k)
                            = CorrectOf(venue_performance, k) + hit * One(k = home)
       /\ (TeamLoopIteration /\ game'[1].gameId \notin WellFormedIds) =>
             /\ team_performance' = team_performance
             /\ venue_performance' = venue_performance
       /\ TotalGames(team_performance') = 2 * TotalGames(venue_performance')
       /\ TotalCorrect(team_performance') = 2 * TotalCorrect(venue_performance')
       /\ TotalGames(venue_performance') <= n'
       /\ \A k \in Range(Keys(venue_performance')) :
             TotalOf(venue_performance', k) <= TotalOf(team_performance', k)]_vars

\* three records read, one of them with a gameId that does not parse; a
\* team that was away once and at home once
C14_Witness ==
    /\ pc = "team_done"
    /\ n = 3
    /\ TotalGames(venue_performance) = 2
    /\ TotalGames(team_performance) = 4
    /\ \E k \in Range(Keys(venue_performance)) :
          TotalOf(venue_performance, k) = 1 /\ TotalOf(team_performance, k) = 2

====
